---- MODULE Spec2Model ----
(***************************************************************************)
(* Model of src/pkg/runtime/lock_sema.c: the semaphore-based Mutex         *)
(* (runtime·lock / runtime·unlock) and the one-shot Note (noteclear,       *)
(* notewakeup, notesleep, notetsleep).                                     *)
(*                                                                         *)
(* Every action performs at most one access to shared memory (l->key,      *)
(* n->key, an M's nextwaitm, an M's semaphore, the clock) together with    *)
(* the thread-private computation that follows it in the source.           *)
(***************************************************************************)
EXTENDS Integers, Sequences, FiniteSets

(* ------------------------------ bounds -------------------------------- *)
\* number of worker threads (M's)
NumM == 4
\* how many calls of runtime·lock (and of runtime·unlock by an M that holds
\* no lock) a run contains, all threads together
MaxLockCalls == 4
\* largest timeout handed to notetsleep
MaxNs == 2
\* the clock advances freely up to this value, and beyond it only while a
\* timed sleeper still waits for its deadline
MaxClock == 2
\* how many calls of unlock by an M that holds no lock a run contains
MaxUnmatched == 1
\* how many M's the scheduler has asked to yield at any one time
MaxPreempts == 2
\* calls of runtime·lock while the Note is in use as well
MaxBothLocks == 2

(* ------------------------- program constants -------------------------- *)
LOCKED == 1
ACTIVE_SPIN == 4
PASSIVE_SPIN == 1
nil == 0
\* the two values of g->stackguard0 that matter: the stack's own guard, and
\* the marker that makes the next stack check call the scheduler
StackGuard == 0
StackPreempt == -1314

Ms == 1..NumM
\* the address of M number t: word aligned, so the low bit is free
PtrOf(t) == 2 * t
\* the M a non-nil pointer refers to
MOf(p) == p \div 2
\* v & LOCKED
LockedBit(w) == w % 2
\* v & ~LOCKED
ClearLocked(w) == w - (w % 2)
\* v | LOCKED
SetLocked(w) == ClearLocked(w) + LOCKED
\* every value a pointer-sized word of the model can hold
Words == 0..(2 * NumM + 1)

VARIABLES
    pc,         \* per M: the statement it is about to execute
    locks,      \* per M: g->m->locks
    waitsema,   \* per M: g->m->waitsema, 0 = not created
    sema,       \* per M: the count of pending grants of its semaphore
    blocked,    \* per M: g->m->blocked
    fatal,      \* "" or the message of the runtime·throw that ended the process
    ncpu,       \* runtime·ncpu
    lkey,       \* l->key of the Mutex
    nextwaitm,  \* per M: g->m->nextwaitm
    v,          \* per M: local v of lock / unlock
    i,          \* per M: local i of lock
    mp,         \* per M: local mp of unlock / notewakeup / notetsleep
    nxt,        \* per M: the value unlock read from mp->nextwaitm
    nkey,       \* n->key of the Note
    ns,         \* per M: argument / local ns of notetsleep
    deadline,   \* per M: local deadline of notetsleep
    now,        \* runtime·nanotime()
    preempt,    \* per M: g->preempt of the g it runs
    stackguard0, \* per M: g->stackguard0 of the g it runs
    hist        \* history record, see HistInit

vars == <<pc, locks, waitsema, sema, blocked, fatal, ncpu, lkey, nextwaitm,
          v, i, mp, nxt, nkey, ns, deadline, now, preempt, stackguard0, hist>>
\* the variables only the Note operations and the clock touch
noteOnly == <<nkey, ns, deadline, now>>
\* the variables of the g the scheduler and runtime·unlock touch
gOnly == <<preempt, stackguard0>>
\* the variables only the Mutex operations (and the scheduler) touch
mtxOnly == <<ncpu, lkey, nextwaitm, v, i, nxt, locks, preempt, stackguard0>>

(* ------------------------- history variables -------------------------- *)
\* What has happened in the current session of the Note (since the last
\* noteclear):
\* waitCalls, wakeCalls   calls of notesleep/notetsleep and of notewakeup (0, 1, many)
\* waiter, ns0            the M of the last wait call and its ns (-1 for notesleep)
\* reg, regTime           the M whose registration CAS succeeded (0: none), and when
\* wakeFound              what notewakeup's first successful CAS replaced:
\*                        "none" (no such CAS yet), "empty", "reg", "woken"
\* regBeforeWake          a registration CAS had succeeded before that CAS
\* semaWakes, semaSleeps  calls of semawakeup by notewakeup and of semasleep
\*                        by the waiter (0, 1, many)
\* wokenAgain             a successful CAS of notewakeup replaced LOCKED
\* unreg                  the waiter's unregister CAS succeeded
\* ret, retTime           what the wait returned ("none": not yet; "void" for
\*                        notesleep; "true"; "false"), and when
\* wokenAtRet             notewakeup's CAS had succeeded when the wait returned
\* intruder               the M (0: none) whose registration CAS failed on a
\*                        key that held another M
SessInit ==
    [waitCalls |-> 0, wakeCalls |-> 0, waiter |-> 0, ns0 |-> 0,
     reg |-> 0, regTime |-> 0, wakeFound |-> "none", regBeforeWake |-> FALSE,
     wokenAgain |-> FALSE, semaWakes |-> 0, semaSleeps |-> 0, unreg |-> FALSE,
     ret |-> "none", retTime |-> 0, wokenAtRet |-> FALSE, intruder |-> 0]

\* enq      the M's whose push CAS succeeded and that no unlock popped yet,
\*          oldest first
\* pop      per M: <<>> or, between its pop CAS and its semawakeup, the pair
\*          <<M popped, M most recently enqueued at that moment>>
\* lockCalls  the calls of runtime·lock, and of unlock without a lock, so far
\* bad      per M: "" or, once it called unlock with lock count 0, what the
\*          mutex was at the call: "unlocked", "held", "held+waiters"
\* thrower  the M whose throw or fault ended the process (0: none)
\* procyields, osyields
\*          per M inside runtime·lock: its calls of runtime·procyield and of
\*          runtime·osyield since it last set i to 0
\* s        the Note's session record
HistInit ==
    [enq |-> <<>>,
     pop |-> [t \in Ms |-> <<>>],
     lockCalls |-> 0,
     bad |-> [t \in Ms |-> ""],
     thrower |-> 0,
     procyields |-> [t \in Ms |-> 0],
     osyields |-> [t \in Ms |-> 0],
     s |-> SessInit]

\* counting 0, 1, many
Sat(n) == IF n < 2 THEN n + 1 ELSE 2

RECURSIVE SeqWithout(_, _)
SeqWithout(s, x) ==
    IF s = <<>> THEN <<>>
    ELSE IF Head(s) = x THEN SeqWithout(Tail(s), x)
         ELSE <<Head(s)>> \o SeqWithout(Tail(s), x)

(* ------------------------------- Init --------------------------------- *)
Init ==
    /\ pc = [t \in Ms |-> "idle"]
    /\ locks = [t \in Ms |-> 0]
    /\ waitsema = [t \in Ms |-> 0]
    /\ sema = [t \in Ms |-> 0]
    /\ blocked = [t \in Ms |-> FALSE]
    /\ fatal = ""
    /\ ncpu \in {1, 2}
    /\ lkey = nil
    /\ nextwaitm = [t \in Ms |-> nil]
    /\ v = [t \in Ms |-> 0]
    /\ i = [t \in Ms |-> 0]
    /\ mp = [t \in Ms |-> nil]
    /\ nxt = [t \in Ms |-> nil]
    /\ nkey = nil
    /\ ns = [t \in Ms |-> 0]
    /\ deadline = [t \in Ms |-> 0]
    /\ now = 0
    /\ preempt = [t \in Ms |-> FALSE]
    /\ stackguard0 = [t \in Ms |-> StackGuard]
    /\ hist = HistInit

(* ---------------------------- collaborators --------------------------- *)
\* runtime·semacreate: a non-zero handle; the M's own number serves as one
semacreate(t) == t

\* g->m->waitsema after "if(g->m->waitsema == 0) g->m->waitsema = semacreate()"
EnsureSema(t) ==
    [waitsema EXCEPT ![t] = IF @ = 0 THEN semacreate(t) ELSE @]

\* runtime·semasleep acquiring the semaphore: possible once a grant is pending
SemaAcquirable(t) == sema[t] > 0
SemaAcquire(t) == [sema EXCEPT ![t] = @ - 1]

\* what runtime·semasleep(n) can return: 0 (acquired), and for n >= 0 also
\* -1 (interrupted or timed out)
SemasleepResults(n) == IF n < 0 THEN {0} ELSE {0, -1}

\* runtime·semawakeup(mp): one more grant on mp's semaphore
SemaGrant(m) == [sema EXCEPT ![m] = @ + 1]

\* what reading a field of a nil M* can do: fault (written -1), or, where
\* page zero is readable, yield the word found there (zero)
NilDeref == {-1, 0}

(* ------------------------------- Mutex -------------------------------- *)
\* spin = ACTIVE_SPIN on a multiprocessor, 0 on a uniprocessor
Spin == IF ncpu > 1 THEN ACTIVE_SPIN ELSE 0

\* lines 42-56: count the lock, try the speculative grab, else prepare to spin
LockEnter(t) ==
    /\ fatal = ""
    /\ pc[t] = "idle"
    /\ hist.lockCalls < MaxLockCalls
    /\ locks' = [locks EXCEPT ![t] = @ + 1]
    /\ IF locks[t] < 0
       THEN /\ fatal' = "runtime.lock: lock count"
            /\ hist' = [hist EXCEPT !.thrower = t, !.lockCalls = @ + 1]
            /\ UNCHANGED <<pc, lkey, waitsema, i>>
       ELSE /\ hist' = [hist EXCEPT !.lockCalls = @ + 1]
            /\ UNCHANGED fatal
            /\ IF lkey = nil
               THEN /\ lkey' = LOCKED
                    /\ pc' = [pc EXCEPT ![t] = "cs"]
                    /\ UNCHANGED <<waitsema, i>>
               ELSE /\ waitsema' = EnsureSema(t)
                    /\ i' = [i EXCEPT ![t] = 0]
                    /\ pc' = [pc EXCEPT ![t] = "l59"]
                    /\ UNCHANGED lkey
    /\ UNCHANGED <<sema, blocked, ncpu, nextwaitm, v, mp, nxt>>
    /\ UNCHANGED noteOnly
    /\ UNCHANGED gOnly

\* lines 59-70: load the key; unlocked: go and grab it; held: procyield or
\* osyield and count the round, or, the spin budget used up, go and queue
Lock59(t) ==
    /\ fatal = ""
    /\ pc[t] = "l59"
    /\ v' = [v EXCEPT ![t] = lkey]
    /\ IF LockedBit(lkey) = 0
       THEN /\ pc' = [pc EXCEPT ![t] = "l62"]
            /\ UNCHANGED <<i, hist>>
       ELSE IF i[t] < Spin
            THEN /\ i' = [i EXCEPT ![t] = @ + 1]
                 /\ hist' = [hist EXCEPT !.procyields[t] = @ + 1]
                 /\ UNCHANGED pc
       ELSE IF i[t] < Spin + PASSIVE_SPIN
            THEN /\ i' = [i EXCEPT ![t] = @ + 1]
                 /\ hist' = [hist EXCEPT !.osyields[t] = @ + 1]
                 /\ UNCHANGED pc
            ELSE /\ pc' = [pc EXCEPT ![t] = "l76"]
                 /\ UNCHANGED <<i, hist>>
    /\ UNCHANGED <<locks, waitsema, sema, blocked, fatal, ncpu, lkey, nextwaitm,
                   mp, nxt>>
    /\ UNCHANGED noteOnly
    /\ UNCHANGED gOnly

\* Lock62 with a plain store in place of the CAS
Lock62_NoCompare(t) ==
    /\ fatal = ""
    /\ pc[t] = "l62"
    /\ lkey' = SetLocked(v[t])
    /\ pc' = [pc EXCEPT ![t] = "cs"]
    /\ v' = [v EXCEPT ![t] = 0]
    /\ i' = [i EXCEPT ![t] = 0]
    /\ hist' = [hist EXCEPT !.procyields[t] = 0, !.osyields[t] = 0]
    /\ UNCHANGED <<locks, waitsema, sema, blocked, fatal, ncpu, nextwaitm,
                   mp, nxt>>
    /\ UNCHANGED noteOnly
    /\ UNCHANGED gOnly

\* lines 62-69 and the loop's i++: CAS v -> v|LOCKED; on success return (the
\* locals are dead); on failure i = 0, one yield (procyield when 0 < spin,
\* else osyield, as 0 < spin + PASSIVE_SPIN always), i++
Lock62(t) ==
    /\ fatal = ""
    /\ pc[t] = "l62"
    /\ IF lkey = v[t]
       THEN /\ lkey' = SetLocked(v[t])
            /\ pc' = [pc EXCEPT ![t] = "cs"]
            /\ v' = [v EXCEPT ![t] = 0]
            /\ i' = [i EXCEPT ![t] = 0]
            /\ hist' = [hist EXCEPT !.procyields[t] = 0, !.osyields[t] = 0]
       ELSE /\ i' = [i EXCEPT ![t] = 1]
            /\ pc' = [pc EXCEPT ![t] = "l59"]
            /\ hist' = [hist EXCEPT
                   !.procyields[t] = IF 0 < Spin THEN 1 ELSE 0,
                   !.osyields[t] = IF 0 < Spin THEN 0 ELSE 1]
            /\ UNCHANGED <<lkey, v>>
    /\ UNCHANGED <<locks, waitsema, sema, blocked, fatal, ncpu, nextwaitm,
                   mp, nxt>>
    /\ UNCHANGED noteOnly
    /\ UNCHANGED gOnly

\* Lock76 forgetting the list behind it: g->m->nextwaitm = nil
Lock76_NoLink(t) ==
    /\ fatal = ""
    /\ pc[t] = "l76"
    /\ nextwaitm' = [nextwaitm EXCEPT ![t] = nil]
    /\ pc' = [pc EXCEPT ![t] = "l77"]
    /\ UNCHANGED <<locks, waitsema, sema, blocked, fatal, ncpu, lkey,
                   v, i, mp, nxt, hist>>
    /\ UNCHANGED noteOnly
    /\ UNCHANGED gOnly

\* line 76: g->m->nextwaitm = v&~LOCKED
Lock76(t) ==
    /\ fatal = ""
    /\ pc[t] = "l76"
    /\ nextwaitm' = [nextwaitm EXCEPT ![t] = ClearLocked(v[t])]
    /\ pc' = [pc EXCEPT ![t] = "l77"]
    /\ UNCHANGED <<locks, waitsema, sema, blocked, fatal, ncpu, lkey,
                   v, i, mp, nxt, hist>>
    /\ UNCHANGED noteOnly
    /\ UNCHANGED gOnly

\* lines 77-78 and 83: the push CAS v -> g->m|LOCKED; pushed on a held lock:
\* go and sleep
Lock77(t) ==
    /\ fatal = ""
    /\ pc[t] = "l77"
    /\ IF lkey = v[t]
       THEN /\ lkey' = SetLocked(PtrOf(t))
            /\ hist' = [hist EXCEPT !.enq = Append(@, t)]
            /\ IF LockedBit(v[t]) = 1
               THEN /\ pc' = [pc EXCEPT ![t] = "l85"]
                    /\ UNCHANGED i
               ELSE /\ pc' = [pc EXCEPT ![t] = "l59"]
                    /\ i' = [i EXCEPT ![t] = @ + 1]
       ELSE /\ pc' = [pc EXCEPT ![t] = "l79"]
            /\ UNCHANGED <<lkey, hist, i>>
    /\ UNCHANGED <<locks, waitsema, sema, blocked, fatal, ncpu, nextwaitm,
                   v, mp, nxt>>
    /\ UNCHANGED noteOnly
    /\ UNCHANGED gOnly

\* Lock79 that retries the push whatever the reloaded key says
Lock79_NoRecheck(t) ==
    /\ fatal = ""
    /\ pc[t] = "l79"
    /\ v' = [v EXCEPT ![t] = lkey]
    /\ pc' = [pc EXCEPT ![t] = "l76"]
    /\ UNCHANGED <<locks, waitsema, sema, blocked, fatal, ncpu, lkey, nextwaitm,
                   i, mp, nxt, hist>>
    /\ UNCHANGED noteOnly
    /\ UNCHANGED gOnly

\* Lock79 that retries the push CAS without writing nextwaitm again
Lock79_NoRelink(t) ==
    /\ fatal = ""
    /\ pc[t] = "l79"
    /\ v' = [v EXCEPT ![t] = lkey]
    /\ pc' = [pc EXCEPT ![t] = IF LockedBit(lkey) = 0 THEN "l62" ELSE "l77"]
    /\ UNCHANGED <<locks, waitsema, sema, blocked, fatal, ncpu, lkey, nextwaitm,
                   i, mp, nxt, hist>>
    /\ UNCHANGED noteOnly
    /\ UNCHANGED gOnly

\* lines 79-81: reload the key after a failed push
Lock79(t) ==
    /\ fatal = ""
    /\ pc[t] = "l79"
    /\ v' = [v EXCEPT ![t] = lkey]
    /\ pc' = [pc EXCEPT ![t] = IF LockedBit(lkey) = 0 THEN "l62" ELSE "l76"]
    /\ UNCHANGED <<locks, waitsema, sema, blocked, fatal, ncpu, lkey, nextwaitm,
                   i, mp, nxt, hist>>
    /\ UNCHANGED noteOnly
    /\ UNCHANGED gOnly

\* lines 85-86 and the loop's i++: semasleep(-1), then i = 0, and i++ with
\* no yield in between
Lock85(t) ==
    /\ fatal = ""
    /\ pc[t] = "l85"
    /\ SemaAcquirable(t)
    /\ sema' = SemaAcquire(t)
    /\ i' = [i EXCEPT ![t] = 1]
    /\ pc' = [pc EXCEPT ![t] = "l59"]
    /\ hist' = [hist EXCEPT !.procyields[t] = 0, !.osyields[t] = 0]
    /\ UNCHANGED <<locks, waitsema, blocked, fatal, ncpu, lkey, nextwaitm,
                   v, mp, nxt>>
    /\ UNCHANGED noteOnly
    /\ UNCHANGED gOnly

\* UnlockTail that reasserts the preemption whatever the lock count
UnlockTail_NoCountTest(t, h) ==
    /\ locks' = [locks EXCEPT ![t] = @ - 1]
    /\ fatal' = IF locks[t] - 1 < 0 THEN "runtime.unlock: lock count" ELSE fatal
    /\ stackguard0' = IF locks[t] - 1 >= 0 /\ preempt[t]
                      THEN [stackguard0 EXCEPT ![t] = StackPreempt]
                      ELSE stackguard0
    /\ UNCHANGED preempt
    /\ hist' = IF locks[t] - 1 < 0 THEN [h EXCEPT !.thrower = t] ELSE h
    /\ pc' = [pc EXCEPT ![t] = "idle"]
    /\ v' = [v EXCEPT ![t] = 0]
    /\ i' = [i EXCEPT ![t] = 0]
    /\ mp' = [mp EXCEPT ![t] = nil]
    /\ nxt' = [nxt EXCEPT ![t] = nil]

\* lines 115-118: --g->m->locks, fatal when negative; else, the count at 0
\* and g->preempt set, g->stackguard0 = StackPreempt; the locals are dead.
\* h is the history record the calling step leaves
UnlockTail(t, h) ==
    /\ locks' = [locks EXCEPT ![t] = @ - 1]
    /\ fatal' = IF locks[t] - 1 < 0 THEN "runtime.unlock: lock count" ELSE fatal
    /\ stackguard0' = IF locks[t] - 1 = 0 /\ preempt[t]
                      THEN [stackguard0 EXCEPT ![t] = StackPreempt]
                      ELSE stackguard0
    /\ UNCHANGED preempt
    /\ hist' = IF locks[t] - 1 < 0 THEN [h EXCEPT !.thrower = t] ELSE h
    /\ pc' = [pc EXCEPT ![t] = "idle"]
    /\ v' = [v EXCEPT ![t] = 0]
    /\ i' = [i EXCEPT ![t] = 0]
    /\ mp' = [mp EXCEPT ![t] = nil]
    /\ nxt' = [nxt EXCEPT ![t] = nil]

\* lines 99-100, 106: load the key; not exactly LOCKED: mp = v&~LOCKED
UnlockLoad(t) ==
    /\ v' = [v EXCEPT ![t] = lkey]
    /\ IF lkey = LOCKED
       THEN /\ pc' = [pc EXCEPT ![t] = "u101"]
            /\ UNCHANGED mp
       ELSE /\ pc' = [pc EXCEPT ![t] = "u106"]
            /\ mp' = [mp EXCEPT ![t] = ClearLocked(lkey)]
    /\ UNCHANGED <<locks, waitsema, sema, blocked, fatal, ncpu, lkey, nextwaitm,
                   i, nxt>>
    /\ UNCHANGED noteOnly
    /\ UNCHANGED gOnly

\* runtime·unlock by the holder, first and later rounds of its loop
Unlock99(t) ==
    /\ fatal = ""
    /\ pc[t] \in {"cs", "u99"}
    /\ UnlockLoad(t)
    /\ UNCHANGED hist

\* runtime·unlock called by an M that holds no lock (its lock count is 0)
UnlockUnmatched(t) ==
    /\ fatal = ""
    /\ pc[t] = "idle"
    /\ locks[t] = 0
    /\ Cardinality({u \in Ms : hist.bad[u] # ""}) < MaxUnmatched
    /\ hist.lockCalls < MaxLockCalls
    /\ UnlockLoad(t)
    /\ hist' = [hist EXCEPT !.lockCalls = @ + 1,
                            !.bad[t] = IF lkey = nil THEN "unlocked"
                                       ELSE IF lkey = LOCKED THEN "held"
                                       ELSE "held+waiters"]

\* Unlock101 whose CAS stores LOCKED again instead of nil
Unlock101_KeepsLocked(t) ==
    /\ fatal = ""
    /\ pc[t] = "u101"
    /\ IF lkey = LOCKED
       THEN /\ lkey' = LOCKED
            /\ UnlockTail(t, hist)
       ELSE /\ pc' = [pc EXCEPT ![t] = "u99"]
            /\ UNCHANGED <<lkey, locks, fatal, v, i, mp, nxt, hist>>
            /\ UNCHANGED gOnly
    /\ UNCHANGED <<waitsema, sema, blocked, ncpu, nextwaitm>>
    /\ UNCHANGED noteOnly

\* line 101: CAS LOCKED -> nil
Unlock101(t) ==
    /\ fatal = ""
    /\ pc[t] = "u101"
    /\ IF lkey = LOCKED
       THEN /\ lkey' = nil
            /\ UnlockTail(t, hist)
       ELSE /\ pc' = [pc EXCEPT ![t] = "u99"]
            /\ UNCHANGED <<lkey, locks, fatal, v, i, mp, nxt, hist>>
            /\ UNCHANGED gOnly
    /\ UNCHANGED <<waitsema, sema, blocked, ncpu, nextwaitm>>
    /\ UNCHANGED noteOnly

\* line 107, its argument: read mp->nextwaitm (mp may be nil when the mutex
\* was not held)
Unlock106(t) ==
    /\ fatal = ""
    /\ pc[t] = "u106"
    /\ IF mp[t] = nil
       THEN \E out \in NilDeref :
               IF out = -1
               THEN /\ fatal' = "fault: nil dereference"
                    /\ hist' = [hist EXCEPT !.thrower = t]
                    /\ UNCHANGED <<pc, nxt>>
               ELSE /\ nxt' = [nxt EXCEPT ![t] = out]
                    /\ pc' = [pc EXCEPT ![t] = "u107"]
                    /\ UNCHANGED <<fatal, hist>>
       ELSE /\ nxt' = [nxt EXCEPT ![t] = nextwaitm[MOf(mp[t])]]
            /\ pc' = [pc EXCEPT ![t] = "u107"]
            /\ UNCHANGED <<fatal, hist>>
    /\ UNCHANGED <<locks, waitsema, sema, blocked, ncpu, lkey, nextwaitm,
                   v, i, mp>>
    /\ UNCHANGED noteOnly
    /\ UNCHANGED gOnly

\* Unlock107 that clears the LOCKED bit but leaves the popped M at the head
Unlock107_KeepsHead(t) ==
    /\ fatal = ""
    /\ pc[t] = "u107"
    /\ IF lkey = v[t]
       THEN /\ lkey' = ClearLocked(v[t])
            /\ pc' = [pc EXCEPT ![t] = "u109"]
            /\ hist' = [hist EXCEPT
                   !.pop[t] = <<MOf(mp[t]),
                                IF hist.enq = <<>> THEN 0
                                ELSE hist.enq[Len(hist.enq)]>>,
                   !.enq = SeqWithout(@, MOf(mp[t]))]
       ELSE /\ pc' = [pc EXCEPT ![t] = "u99"]
            /\ UNCHANGED <<lkey, hist>>
    /\ UNCHANGED <<locks, waitsema, sema, blocked, fatal, ncpu, nextwaitm,
                   v, i, mp, nxt>>
    /\ UNCHANGED noteOnly
    /\ UNCHANGED gOnly

\* Unlock107 that stores nil, forgetting the rest of the list
Unlock107_DropsList(t) ==
    /\ fatal = ""
    /\ pc[t] = "u107"
    /\ IF lkey = v[t]
       THEN /\ lkey' = nil
            /\ pc' = [pc EXCEPT ![t] = "u109"]
            /\ hist' = [hist EXCEPT
                   !.pop[t] = <<MOf(mp[t]),
                                IF hist.enq = <<>> THEN 0
                                ELSE hist.enq[Len(hist.enq)]>>,
                   !.enq = SeqWithout(@, MOf(mp[t]))]
       ELSE /\ pc' = [pc EXCEPT ![t] = "u99"]
            /\ UNCHANGED <<lkey, hist>>
    /\ UNCHANGED <<locks, waitsema, sema, blocked, fatal, ncpu, nextwaitm,
                   v, i, mp, nxt>>
    /\ UNCHANGED noteOnly
    /\ UNCHANGED gOnly

\* line 107: the pop CAS v -> mp->nextwaitm
Unlock107(t) ==
    /\ fatal = ""
    /\ pc[t] = "u107"
    /\ IF lkey = v[t]
       THEN /\ lkey' = nxt[t]
            /\ pc' = [pc EXCEPT ![t] = "u109"]
            /\ hist' = [hist EXCEPT
                   !.pop[t] = <<MOf(mp[t]),
                                IF hist.enq = <<>> THEN 0
                                ELSE hist.enq[Len(hist.enq)]>>,
                   !.enq = SeqWithout(@, MOf(mp[t]))]
       ELSE /\ pc' = [pc EXCEPT ![t] = "u99"]
            /\ UNCHANGED <<lkey, hist>>
    /\ UNCHANGED <<locks, waitsema, sema, blocked, fatal, ncpu, nextwaitm,
                   v, i, mp, nxt>>
    /\ UNCHANGED noteOnly
    /\ UNCHANGED gOnly

\* Unlock109 that forgets the semawakeup
Unlock109_NoWake(t) ==
    /\ fatal = ""
    /\ pc[t] = "u109"
    /\ UnlockTail(t, [hist EXCEPT !.pop[t] = <<>>])
    /\ UNCHANGED <<waitsema, sema, blocked, ncpu, lkey, nextwaitm>>
    /\ UNCHANGED noteOnly

\* lines 109-118: semawakeup(mp), then the lock count
Unlock109(t) ==
    /\ fatal = ""
    /\ pc[t] = "u109"
    /\ IF mp[t] = nil
       THEN \E out \in {"fault", "nothing"} :
               IF out = "fault"
               THEN /\ fatal' = "fault: nil dereference"
                    /\ hist' = [hist EXCEPT !.thrower = t]
                    /\ UNCHANGED <<pc, locks, v, i, mp, nxt, sema>>
                    /\ UNCHANGED gOnly
               ELSE /\ UnlockTail(t, [hist EXCEPT !.pop[t] = <<>>])
                    /\ UNCHANGED sema
       ELSE /\ sema' = SemaGrant(MOf(mp[t]))
            /\ UnlockTail(t, [hist EXCEPT !.pop[t] = <<>>])
    /\ UNCHANGED <<waitsema, blocked, ncpu, lkey, nextwaitm>>
    /\ UNCHANGED noteOnly

MutexStep(t) ==
    \/ LockEnter(t)
    \/ Lock59(t)
    \/ Lock62(t)
    \/ Lock76(t)
    \/ Lock77(t)
    \/ Lock79(t)
    \/ Lock85(t)
    \/ Unlock99(t)
    \/ Unlock101(t)
    \/ Unlock106(t)
    \/ Unlock107(t)
    \/ Unlock109(t)

\* threads that only ever call lock and then unlock, MaxLockCalls times in all
NextMutex == \E t \in Ms : MutexStep(t)
SpecMutex == Init /\ [][NextMutex]_vars

\* the steps inside lock and unlock, the call of unlock by the holder included
MutexProgress(t) ==
    \/ Lock59(t)
    \/ Lock62(t)
    \/ Lock76(t)
    \/ Lock77(t)
    \/ Lock79(t)
    \/ Lock85(t)
    \/ Unlock99(t)
    \/ Unlock101(t)
    \/ Unlock106(t)
    \/ Unlock107(t)
    \/ Unlock109(t)

\* every thread inside lock or unlock eventually takes its next step, and
\* every holder eventually calls unlock
FairSpecMutex == SpecMutex /\ \A t \in Ms : WF_vars(MutexProgress(t))

\* the same threads, any of which may also call unlock without holding a lock
NextUnmatched == \E t \in Ms : MutexStep(t) \/ UnlockUnmatched(t)
SpecUnmatched == Init /\ [][NextUnmatched]_vars

(* ---------------------- preemption and lock count -------------------- *)
\* The scheduler asks the g running on M t, which holds the mutex, to yield:
\* g->preempt = true and g->stackguard0 = StackPreempt
PreemptRequest(t) ==
    /\ fatal = ""
    /\ pc[t] = "cs"
    /\ ~preempt[t]
    /\ Cardinality({u \in Ms : preempt[u]}) < MaxPreempts
    /\ preempt' = [preempt EXCEPT ![t] = TRUE]
    /\ stackguard0' = [stackguard0 EXCEPT ![t] = StackPreempt]
    /\ UNCHANGED <<pc, locks, waitsema, sema, blocked, fatal, ncpu, lkey,
                   nextwaitm, v, i, mp, nxt, hist>>
    /\ UNCHANGED noteOnly

\* line 117, its comment: a stack check of the g came upon the marker while
\* the M held locks, and newstack cleared it, leaving g->preempt set
NewstackClear(t) ==
    /\ fatal = ""
    /\ pc[t] = "cs"
    /\ locks[t] > 0
    /\ stackguard0[t] = StackPreempt
    /\ stackguard0' = [stackguard0 EXCEPT ![t] = StackGuard]
    /\ UNCHANGED <<pc, locks, waitsema, sema, blocked, fatal, ncpu, lkey,
                   nextwaitm, v, i, mp, nxt, preempt, hist>>
    /\ UNCHANGED noteOnly

\* a stack check of the g came upon the marker with no lock held: the g
\* yields, and the request is done with
Preempted(t) ==
    /\ fatal = ""
    /\ pc[t] = "idle"
    /\ locks[t] = 0
    /\ stackguard0[t] = StackPreempt
    /\ preempt' = [preempt EXCEPT ![t] = FALSE]
    /\ stackguard0' = [stackguard0 EXCEPT ![t] = StackGuard]
    /\ UNCHANGED <<pc, locks, waitsema, sema, blocked, fatal, ncpu, lkey,
                   nextwaitm, v, i, mp, nxt, hist>>
    /\ UNCHANGED noteOnly

\* lines 42-47 on another Mutex, which is free: g->m->locks++ and the
\* speculative grab; the call counts as one of the MaxLockCalls
LockOther(t) ==
    /\ fatal = ""
    /\ pc[t] = "idle"
    /\ locks[t] = 0
    /\ hist.lockCalls < MaxLockCalls
    /\ locks' = [locks EXCEPT ![t] = @ + 1]
    /\ hist' = [hist EXCEPT !.lockCalls = @ + 1]
    /\ UNCHANGED <<pc, waitsema, sema, blocked, fatal, ncpu, lkey,
                   nextwaitm, v, i, mp, nxt>>
    /\ UNCHANGED noteOnly
    /\ UNCHANGED gOnly

\* lines 99-102 and 115-118 on that other Mutex, which is held and has no
\* waiters: held by this M, or, this M holding no lock at all, by another one
\* (a call that is only looked at for an M asked to yield)
UnlockOther(t) ==
    /\ fatal = ""
    /\ pc[t] = "idle"
    /\ locks[t] <= 1
    /\ locks[t] = 0 => preempt[t]
    /\ UnlockTail(t, hist)
    /\ UNCHANGED <<waitsema, sema, blocked, ncpu, lkey, nextwaitm>>
    /\ UNCHANGED noteOnly

PreemptStep(t) ==
    \/ PreemptRequest(t)
    \/ NewstackClear(t)
    \/ Preempted(t)
    \/ LockOther(t)
    \/ UnlockOther(t)

\* threads that lock and unlock the Mutex, also while they hold another one,
\* and that the scheduler may ask to yield while they hold it
NextPreempt == \E t \in Ms : MutexStep(t) \/ PreemptStep(t)
\* the lock count and the preemption marker do not depend on the spinning:
\* one value of ncpu will do
InitPreempt == Init /\ ncpu = 1
SpecPreempt == InitPreempt /\ [][NextPreempt]_vars

(* -------------------------------- Note -------------------------------- *)
\* every ns a caller hands to notetsleep: negative means no deadline
NsArgs == -1..MaxNs

\* what a wait leaves behind when it returns r: the locals are dead
NoteReturn(t, r, h) ==
    /\ pc' = [pc EXCEPT ![t] = "idle"]
    /\ mp' = [mp EXCEPT ![t] = nil]
    /\ ns' = [ns EXCEPT ![t] = 0]
    /\ deadline' = [deadline EXCEPT ![t] = 0]
    /\ hist' = [h EXCEPT !.s.ret = r, !.s.retTime = now,
                         !.s.wokenAtRet = (h.s.wakeFound # "none")]

\* runtime·throw(msg) by M t
NoteThrow(t, msg) ==
    /\ fatal' = msg
    /\ hist' = [hist EXCEPT !.thrower = t]

\* line 125: n->key = 0, between sessions (no Note operation is running)
Noteclear(t) ==
    /\ fatal = ""
    /\ \A u \in Ms : pc[u] = "idle"
    /\ nkey' = nil
    /\ hist' = [hist EXCEPT !.s = SessInit]
    /\ UNCHANGED <<pc, waitsema, sema, blocked, fatal, mp, ns, deadline, now>>
    /\ UNCHANGED mtxOnly

\* line 134: mp = atomicloadp(&n->key)
NotewakeupLoad(t) ==
    /\ mp' = [mp EXCEPT ![t] = nkey]
    /\ pc' = [pc EXCEPT ![t] = "w135"]
    /\ UNCHANGED <<waitsema, sema, blocked, fatal, nkey, ns, deadline, now>>
    /\ UNCHANGED mtxOnly

\* runtime·notewakeup, the one call of a session
NotewakeupCall(t) ==
    /\ fatal = ""
    /\ pc[t] = "idle"
    /\ hist.s.wakeCalls = 0
    /\ NotewakeupLoad(t)
    /\ hist' = [hist EXCEPT !.s.wakeCalls = Sat(@)]

\* line 134 again, after a failed CAS
Notewakeup134(t) ==
    /\ fatal = ""
    /\ pc[t] = "w134"
    /\ NotewakeupLoad(t)
    /\ UNCHANGED hist

\* Notewakeup135 that takes a registered M for "nothing was waiting"
Notewakeup135_NoWake(t) ==
    /\ fatal = ""
    /\ pc[t] = "w135"
    /\ IF nkey = mp[t]
       THEN LET found == IF mp[t] = nil THEN "empty"
                         ELSE IF mp[t] = LOCKED THEN "woken" ELSE "reg"
                h == IF hist.s.wakeFound = "none"
                     THEN [hist EXCEPT !.s.wakeFound = found,
                                       !.s.regBeforeWake = (hist.s.reg # 0),
                                       !.s.wokenAgain = (nkey = LOCKED)]
                     ELSE [hist EXCEPT !.s.wokenAgain = (@ \/ nkey = LOCKED)]
            IN  /\ nkey' = LOCKED
                /\ IF mp[t] = LOCKED
                   THEN /\ fatal' = "notewakeup - double wakeup"
                        /\ hist' = [h EXCEPT !.thrower = t]
                        /\ UNCHANGED <<pc, mp>>
                   ELSE /\ pc' = [pc EXCEPT ![t] = "idle"]
                        /\ mp' = [mp EXCEPT ![t] = nil]
                        /\ hist' = h
                        /\ UNCHANGED fatal
       ELSE /\ pc' = [pc EXCEPT ![t] = "w134"]
            /\ UNCHANGED <<nkey, fatal, mp, hist>>
    /\ UNCHANGED <<waitsema, sema, blocked, ns, deadline, now>>
    /\ UNCHANGED mtxOnly

\* Notewakeup135 without the test for a second wakeup: LOCKED is taken for
\* "nothing was waiting"
Notewakeup135_NoDoubleCheck(t) ==
    /\ fatal = ""
    /\ pc[t] = "w135"
    /\ IF nkey = mp[t]
       THEN LET found == IF mp[t] = nil THEN "empty"
                         ELSE IF mp[t] = LOCKED THEN "woken" ELSE "reg"
                h == IF hist.s.wakeFound = "none"
                     THEN [hist EXCEPT !.s.wakeFound = found,
                                       !.s.regBeforeWake = (hist.s.reg # 0),
                                       !.s.wokenAgain = (nkey = LOCKED)]
                     ELSE [hist EXCEPT !.s.wokenAgain = (@ \/ nkey = LOCKED)]
            IN  /\ nkey' = LOCKED
                /\ hist' = h
                /\ pc' = [pc EXCEPT ![t] =
                             IF mp[t] = nil \/ mp[t] = LOCKED THEN "idle"
                             ELSE "w146"]
                /\ mp' = [mp EXCEPT ![t] =
                             IF mp[t] = LOCKED THEN nil ELSE @]
                /\ UNCHANGED fatal
       ELSE /\ pc' = [pc EXCEPT ![t] = "w134"]
            /\ UNCHANGED <<nkey, fatal, mp, hist>>
    /\ UNCHANGED <<waitsema, sema, blocked, ns, deadline, now>>
    /\ UNCHANGED mtxOnly

\* lines 135-147: CAS mp -> LOCKED, then by what mp was: nothing, the throw,
\* or go and wake mp
Notewakeup135(t) ==
    /\ fatal = ""
    /\ pc[t] = "w135"
    /\ IF nkey = mp[t]
       THEN LET found == IF mp[t] = nil THEN "empty"
                         ELSE IF mp[t] = LOCKED THEN "woken" ELSE "reg"
                h == IF hist.s.wakeFound = "none"
                     THEN [hist EXCEPT !.s.wakeFound = found,
                                       !.s.regBeforeWake = (hist.s.reg # 0),
                                       !.s.wokenAgain = (nkey = LOCKED)]
                     ELSE [hist EXCEPT !.s.wokenAgain = (@ \/ nkey = LOCKED)]
            IN  /\ nkey' = LOCKED
                /\ IF mp[t] = nil
                   THEN /\ pc' = [pc EXCEPT ![t] = "idle"]
                        /\ hist' = h
                        /\ UNCHANGED <<fatal, mp>>
                   ELSE IF mp[t] = LOCKED
                   THEN /\ fatal' = "notewakeup - double wakeup"
                        /\ hist' = [h EXCEPT !.thrower = t]
                        /\ UNCHANGED <<pc, mp>>
                   ELSE /\ pc' = [pc EXCEPT ![t] = "w146"]
                        /\ hist' = h
                        /\ UNCHANGED <<fatal, mp>>
       ELSE /\ pc' = [pc EXCEPT ![t] = "w134"]
            /\ UNCHANGED <<nkey, fatal, mp, hist>>
    /\ UNCHANGED <<waitsema, sema, blocked, ns, deadline, now>>
    /\ UNCHANGED mtxOnly

\* line 146: semawakeup(mp)
Notewakeup146(t) ==
    /\ fatal = ""
    /\ pc[t] = "w146"
    /\ sema' = SemaGrant(MOf(mp[t]))
    /\ pc' = [pc EXCEPT ![t] = "idle"]
    /\ mp' = [mp EXCEPT ![t] = nil]
    /\ hist' = [hist EXCEPT !.s.semaWakes = Sat(@)]
    /\ UNCHANGED <<waitsema, blocked, fatal, nkey, ns, deadline, now>>
    /\ UNCHANGED mtxOnly

\* lines 166-175: make sure of the semaphore, the registration CAS
\* nil -> g->m; registered: blocked = true and call semasleep(-1)
NotesleepEnter(t) ==
    /\ waitsema' = EnsureSema(t)
    /\ IF nkey = nil
       THEN /\ nkey' = PtrOf(t)
            /\ blocked' = [blocked EXCEPT ![t] = TRUE]
            /\ pc' = [pc EXCEPT ![t] = "s175"]
            /\ hist' = [hist EXCEPT !.s.waitCalls = Sat(@), !.s.waiter = t,
                                    !.s.ns0 = -1, !.s.reg = t,
                                    !.s.regTime = now,
                                    !.s.semaSleeps = Sat(@)]
       ELSE /\ pc' = [pc EXCEPT ![t] = "s169"]
            /\ hist' = [hist EXCEPT !.s.waitCalls = Sat(@), !.s.waiter = t,
                                    !.s.ns0 = -1,
                                    !.s.intruder = IF nkey # LOCKED THEN t ELSE @]
            /\ UNCHANGED <<nkey, blocked>>
    /\ UNCHANGED <<sema, fatal, mp, ns, deadline, now>>
    /\ UNCHANGED mtxOnly

\* runtime·notesleep on g0, the one wait of a session
NotesleepCall(t) ==
    /\ fatal = ""
    /\ pc[t] = "idle"
    /\ hist.s.waitCalls = 0
    /\ NotesleepEnter(t)

\* lines 169-171: the CAS failed; n->key must be LOCKED
Notesleep169(t) ==
    /\ fatal = ""
    /\ pc[t] = "s169"
    /\ IF nkey # LOCKED
       THEN /\ NoteThrow(t, "notesleep - waitm out of sync")
            /\ UNCHANGED <<pc, mp, ns, deadline>>
       ELSE /\ NoteReturn(t, "void", hist)
            /\ UNCHANGED fatal
    /\ UNCHANGED <<waitsema, sema, blocked, nkey, now>>
    /\ UNCHANGED mtxOnly

\* lines 175-176: semasleep(-1) returns, blocked = false
Notesleep175(t) ==
    /\ fatal = ""
    /\ pc[t] = "s175"
    /\ SemaAcquirable(t)
    /\ sema' = SemaAcquire(t)
    /\ blocked' = [blocked EXCEPT ![t] = FALSE]
    /\ NoteReturn(t, "void", hist)
    /\ UNCHANGED <<waitsema, fatal, nkey, now>>
    /\ UNCHANGED mtxOnly

\* NotetsleepEnter that registers with a plain store in place of the CAS
NotetsleepEnter_Store(t, n) ==
    /\ waitsema' = EnsureSema(t)
    /\ nkey' = PtrOf(t)
    /\ IF n < 0
       THEN /\ blocked' = [blocked EXCEPT ![t] = TRUE]
            /\ pc' = [pc EXCEPT ![t] = "t197"]
            /\ UNCHANGED ns
       ELSE /\ pc' = [pc EXCEPT ![t] = "t202"]
            /\ ns' = [ns EXCEPT ![t] = n]
            /\ UNCHANGED blocked
    /\ hist' = [hist EXCEPT !.s.waitCalls = Sat(@), !.s.waiter = t,
                            !.s.ns0 = n, !.s.reg = t,
                            !.s.regTime = now,
                            !.s.semaSleeps = IF n < 0 THEN Sat(@) ELSE @]
    /\ UNCHANGED <<sema, fatal, mp, deadline, now>>
    /\ UNCHANGED mtxOnly

\* lines 252-253, 188, 194-197: make sure of the semaphore, the registration
\* CAS; registered with ns < 0: blocked = true and call semasleep(-1)
NotetsleepEnter(t, n) ==
    /\ waitsema' = EnsureSema(t)
    /\ IF nkey = nil
       THEN /\ nkey' = PtrOf(t)
            /\ IF n < 0
               THEN /\ blocked' = [blocked EXCEPT ![t] = TRUE]
                    /\ pc' = [pc EXCEPT ![t] = "t197"]
                    /\ UNCHANGED ns
               ELSE /\ pc' = [pc EXCEPT ![t] = "t202"]
                    /\ ns' = [ns EXCEPT ![t] = n]
                    /\ UNCHANGED blocked
            /\ hist' = [hist EXCEPT !.s.waitCalls = Sat(@), !.s.waiter = t,
                                    !.s.ns0 = n, !.s.reg = t,
                                    !.s.regTime = now,
                                    !.s.semaSleeps = IF n < 0 THEN Sat(@) ELSE @]
       ELSE /\ pc' = [pc EXCEPT ![t] = "t189"]
            /\ hist' = [hist EXCEPT !.s.waitCalls = Sat(@), !.s.waiter = t,
                                    !.s.ns0 = n,
                                    !.s.intruder = IF nkey # LOCKED THEN t ELSE @]
            /\ UNCHANGED <<nkey, blocked, ns>>
    /\ UNCHANGED <<sema, fatal, mp, deadline, now>>
    /\ UNCHANGED mtxOnly

\* runtime·notetsleep(n, ns) on g0, the one wait of a session (one with a
\* deadline only while the clock is within its bound)
NotetsleepCall(t) ==
    /\ fatal = ""
    /\ pc[t] = "idle"
    /\ hist.s.waitCalls = 0
    /\ \E n \in NsArgs :
          /\ n >= 0 => now <= MaxClock
          /\ NotetsleepEnter(t, n)

\* lines 189-191: the CAS failed; n->key must be LOCKED
Notetsleep189(t) ==
    /\ fatal = ""
    /\ pc[t] = "t189"
    /\ IF nkey # LOCKED
       THEN /\ NoteThrow(t, "notetsleep - waitm out of sync")
            /\ UNCHANGED <<pc, mp, ns, deadline>>
       ELSE /\ NoteReturn(t, "true", hist)
            /\ UNCHANGED fatal
    /\ UNCHANGED <<waitsema, sema, blocked, nkey, now>>
    /\ UNCHANGED mtxOnly

\* lines 197-199: semasleep(-1) returns, blocked = false, return true
Notetsleep197(t) ==
    /\ fatal = ""
    /\ pc[t] = "t197"
    /\ SemaAcquirable(t)
    /\ sema' = SemaAcquire(t)
    /\ blocked' = [blocked EXCEPT ![t] = FALSE]
    /\ NoteReturn(t, "true", hist)
    /\ UNCHANGED <<waitsema, fatal, nkey, now>>
    /\ UNCHANGED mtxOnly

\* lines 202-206: deadline = nanotime() + ns, blocked = true, call semasleep(ns)
Notetsleep202(t) ==
    /\ fatal = ""
    /\ pc[t] = "t202"
    /\ deadline' = [deadline EXCEPT ![t] = now + ns[t]]
    /\ blocked' = [blocked EXCEPT ![t] = TRUE]
    /\ pc' = [pc EXCEPT ![t] = "t206"]
    /\ hist' = [hist EXCEPT !.s.semaSleeps = Sat(@)]
    /\ UNCHANGED <<waitsema, sema, fatal, mp, nkey, ns, now>>
    /\ UNCHANGED mtxOnly

\* lines 206-212: semasleep(ns) returns: 0 with the semaphore acquired, or -1
\* (interrupted or timed out, which may happen at any moment)
Notetsleep206(t) ==
    /\ fatal = ""
    /\ pc[t] = "t206"
    /\ blocked' = [blocked EXCEPT ![t] = FALSE]
    /\ \E r \in SemasleepResults(ns[t]) :
          IF r >= 0
          THEN /\ SemaAcquirable(t)
               /\ sema' = SemaAcquire(t)
               /\ NoteReturn(t, "true", hist)
          ELSE /\ pc' = [pc EXCEPT ![t] = "t215"]
               /\ UNCHANGED <<sema, mp, ns, deadline, hist>>
    /\ UNCHANGED <<waitsema, fatal, nkey, now>>
    /\ UNCHANGED mtxOnly

\* Notetsleep215 that gives up at the first -1, whatever time is left
Notetsleep215_NoRecheck(t) ==
    /\ fatal = ""
    /\ pc[t] = "t215"
    /\ ns' = [ns EXCEPT ![t] = deadline[t] - now]
    /\ pc' = [pc EXCEPT ![t] = "t226"]
    /\ UNCHANGED <<blocked, hist>>
    /\ UNCHANGED <<waitsema, sema, fatal, mp, nkey, deadline, now>>
    /\ UNCHANGED mtxOnly

\* Notetsleep215 that returns false at the deadline without unregistering
Notetsleep215_NoUnregister(t) ==
    /\ fatal = ""
    /\ pc[t] = "t215"
    /\ IF deadline[t] - now <= 0
       THEN /\ NoteReturn(t, "false", hist)
            /\ UNCHANGED blocked
       ELSE /\ ns' = [ns EXCEPT ![t] = deadline[t] - now]
            /\ pc' = [pc EXCEPT ![t] = "t206"]
            /\ blocked' = [blocked EXCEPT ![t] = TRUE]
            /\ hist' = [hist EXCEPT !.s.semaSleeps = Sat(@)]
            /\ UNCHANGED <<mp, deadline>>
    /\ UNCHANGED <<waitsema, sema, fatal, nkey, now>>
    /\ UNCHANGED mtxOnly

\* lines 215-218 and 205-206: ns = deadline - nanotime(); none left: go and
\* unregister; else blocked = true and call semasleep(ns) again
Notetsleep215(t) ==
    /\ fatal = ""
    /\ pc[t] = "t215"
    /\ ns' = [ns EXCEPT ![t] = deadline[t] - now]
    /\ IF deadline[t] - now <= 0
       THEN /\ pc' = [pc EXCEPT ![t] = "t226"]
            /\ UNCHANGED <<blocked, hist>>
       ELSE /\ pc' = [pc EXCEPT ![t] = "t206"]
            /\ blocked' = [blocked EXCEPT ![t] = TRUE]
            /\ hist' = [hist EXCEPT !.s.semaSleeps = Sat(@)]
    /\ UNCHANGED <<waitsema, sema, fatal, mp, nkey, deadline, now>>
    /\ UNCHANGED mtxOnly

\* Notetsleep226 that returns true on LOCKED without taking the semaphore
Notetsleep226_NoConsume(t) ==
    /\ fatal = ""
    /\ pc[t] = "t226"
    /\ IF nkey = PtrOf(t)
       THEN /\ pc' = [pc EXCEPT ![t] = "t229"]
            /\ mp' = [mp EXCEPT ![t] = nkey]
            /\ UNCHANGED <<fatal, hist, ns, deadline>>
       ELSE IF nkey = LOCKED
       THEN /\ NoteReturn(t, "true", hist)
            /\ UNCHANGED fatal
       ELSE /\ NoteThrow(t, "runtime: unexpected waitm - semaphore out of sync")
            /\ mp' = [mp EXCEPT ![t] = nkey]
            /\ UNCHANGED <<pc, ns, deadline>>
    /\ UNCHANGED <<waitsema, sema, blocked, nkey, now>>
    /\ UNCHANGED mtxOnly

\* lines 226-240: mp = atomicloadp(&n->key); our own M: go and unregister;
\* LOCKED: blocked = true and call semasleep(-1); anything else: throw
Notetsleep226(t) ==
    /\ fatal = ""
    /\ pc[t] = "t226"
    /\ mp' = [mp EXCEPT ![t] = nkey]
    /\ IF nkey = PtrOf(t)
       THEN /\ pc' = [pc EXCEPT ![t] = "t229"]
            /\ UNCHANGED <<blocked, fatal, hist>>
       ELSE IF nkey = LOCKED
       THEN /\ pc' = [pc EXCEPT ![t] = "t235"]
            /\ blocked' = [blocked EXCEPT ![t] = TRUE]
            /\ hist' = [hist EXCEPT !.s.semaSleeps = Sat(@)]
            /\ UNCHANGED fatal
       ELSE /\ NoteThrow(t, "runtime: unexpected waitm - semaphore out of sync")
            /\ UNCHANGED <<pc, blocked>>
    /\ UNCHANGED <<waitsema, sema, nkey, ns, deadline, now>>
    /\ UNCHANGED mtxOnly

\* Notetsleep229 that unregisters with a plain store in place of the CAS
Notetsleep229_Store(t) ==
    /\ fatal = ""
    /\ pc[t] = "t229"
    /\ nkey' = nil
    /\ NoteReturn(t, "false", [hist EXCEPT !.s.unreg = TRUE])
    /\ UNCHANGED <<waitsema, sema, blocked, fatal, now>>
    /\ UNCHANGED mtxOnly

\* lines 229-230: the unregister CAS mp -> nil; done: return false
Notetsleep229(t) ==
    /\ fatal = ""
    /\ pc[t] = "t229"
    /\ IF nkey = mp[t]
       THEN /\ nkey' = nil
            /\ NoteReturn(t, "false", [hist EXCEPT !.s.unreg = TRUE])
       ELSE /\ pc' = [pc EXCEPT ![t] = "t226"]
            /\ UNCHANGED <<nkey, mp, ns, deadline, hist>>
    /\ UNCHANGED <<waitsema, sema, blocked, fatal, now>>
    /\ UNCHANGED mtxOnly

\* lines 235-238: semasleep(-1) returns; negative: throw; else
\* blocked = false, return true
Notetsleep235(t) ==
    /\ fatal = ""
    /\ pc[t] = "t235"
    /\ \E r \in SemasleepResults(-1) :
          IF r < 0
          THEN /\ NoteThrow(t, "runtime: unable to acquire - semaphore out of sync")
               /\ UNCHANGED <<pc, sema, blocked, mp, ns, deadline>>
          ELSE /\ SemaAcquirable(t)
               /\ sema' = SemaAcquire(t)
               /\ blocked' = [blocked EXCEPT ![t] = FALSE]
               /\ NoteReturn(t, "true", hist)
               /\ UNCHANGED fatal
    /\ UNCHANGED <<waitsema, nkey, now>>
    /\ UNCHANGED mtxOnly

\* the M's in the timed part of notetsleep
TimedSleepers == {t \in Ms : pc[t] \in {"t202", "t206", "t215"}}

\* runtime·nanotime() advances
Tick ==
    /\ fatal = ""
    /\ \/ now < MaxClock
       \/ \E t \in TimedSleepers : pc[t] # "t202" /\ now < deadline[t]
    /\ now' = now + 1
    /\ UNCHANGED <<pc, waitsema, sema, blocked, fatal, mp, nkey, ns, deadline,
                   hist>>
    /\ UNCHANGED mtxOnly

\* the steps inside a Note operation
NoteStep(t) ==
    \/ Notewakeup134(t)
    \/ Notewakeup135(t)
    \/ Notewakeup146(t)
    \/ Notesleep169(t)
    \/ Notesleep175(t)
    \/ Notetsleep189(t)
    \/ Notetsleep197(t)
    \/ Notetsleep202(t)
    \/ Notetsleep206(t)
    \/ Notetsleep215(t)
    \/ Notetsleep226(t)
    \/ Notetsleep229(t)
    \/ Notetsleep235(t)

\* the calls a session allows: one wait, one notewakeup, and noteclear between
\* sessions
NoteCall(t) ==
    \/ Noteclear(t)
    \/ NotewakeupCall(t)
    \/ NotesleepCall(t)
    \/ NotetsleepCall(t)

\* runtime·notewakeup called a second time in a session
NotewakeupAgain(t) ==
    /\ fatal = ""
    /\ pc[t] = "idle"
    /\ hist.s.wakeCalls = 1
    /\ NotewakeupLoad(t)
    /\ hist' = [hist EXCEPT !.s.wakeCalls = Sat(@)]

\* runtime·notesleep called by a second M in a session
NotesleepSecond(t) ==
    /\ fatal = ""
    /\ pc[t] = "idle"
    /\ hist.s.waitCalls = 1
    /\ NotesleepEnter(t)

\* runtime·notetsleep called by a second M in a session
NotetsleepSecond(t) ==
    /\ fatal = ""
    /\ pc[t] = "idle"
    /\ hist.s.waitCalls = 1
    /\ \E n \in NsArgs :
          /\ n >= 0 => now <= MaxClock
          /\ NotetsleepEnter(t, n)

\* the Note operations never read ncpu: one value of it will do
InitNote == Init /\ ncpu = 1

NextNote == Tick \/ \E t \in Ms : NoteCall(t) \/ NoteStep(t)
SpecNote == InitNote /\ [][NextNote]_vars

\* sessions in which notewakeup may be called twice
NextNoteDouble == NextNote \/ \E t \in Ms : NotewakeupAgain(t)
SpecNoteDouble == InitNote /\ [][NextNoteDouble]_vars

\* sessions in which a second wait may be called
NextNoteTwo ==
    NextNote \/ \E t \in Ms : NotesleepSecond(t) \/ NotetsleepSecond(t)
SpecNoteTwo == InitNote /\ [][NextNoteTwo]_vars

\* the same, every thread inside an operation eventually taking its next step
\* and the clock eventually advancing
FairSpecNote ==
    /\ SpecNote
    /\ \A t \in Ms : WF_vars(NoteStep(t))
    /\ WF_vars(Tick)

(* ----------------------- the callers' context ------------------------- *)
\* the throws of the context checks of lines 163-164, 249-250 and 266-267
ContextThrows ==
    {"notesleep not on g0", "notetsleep not on g0", "notetsleepg on g0"}

\* a context check that fails: runtime·throw, and nothing else
ContextThrow(t, msg) ==
    /\ NoteThrow(t, msg)
    /\ UNCHANGED <<pc, waitsema, sema, blocked, mp, nkey, ns, deadline, now>>
    /\ UNCHANGED mtxOnly

\* NotesleepEntry that creates the semaphore before it looks at g
NotesleepEntry_LateCheck(t, onG0) ==
    IF ~onG0
    THEN /\ waitsema' = EnsureSema(t)
         /\ NoteThrow(t, "notesleep not on g0")
         /\ UNCHANGED <<pc, sema, blocked, mp, nkey, ns, deadline, now>>
         /\ UNCHANGED mtxOnly
    ELSE NotesleepEnter(t)

\* lines 163-168: runtime·notesleep from its first statement; onG0 says
\* whether g == g->m->g0
NotesleepEntry(t, onG0) ==
    IF ~onG0
    THEN ContextThrow(t, "notesleep not on g0")
    ELSE NotesleepEnter(t)

\* lines 249-255: runtime·notetsleep from its first statement
NotetsleepEntry(t, n, onG0, gcing) ==
    IF ~onG0 /\ ~gcing
    THEN ContextThrow(t, "notetsleep not on g0")
    ELSE NotetsleepEnter(t, n)

\* lines 266-273: runtime·notetsleepg from its first statement; on a user g
\* it goes on as notetsleep does (entersyscallblock and exitsyscall touch
\* nothing of this file)
NotetsleepgEntry(t, n, onG0) ==
    IF onG0
    THEN ContextThrow(t, "notetsleepg on g0")
    ELSE NotetsleepEnter(t, n)

\* the one wait of a session, called from any context
NotesleepAnyG(t) ==
    /\ fatal = ""
    /\ pc[t] = "idle"
    /\ hist.s.waitCalls = 0
    /\ \E onG0 \in BOOLEAN : NotesleepEntry(t, onG0)

NotetsleepAnyG(t) ==
    /\ fatal = ""
    /\ pc[t] = "idle"
    /\ hist.s.waitCalls = 0
    /\ \E n \in NsArgs, onG0 \in BOOLEAN, gcing \in BOOLEAN :
          /\ n >= 0 => now <= MaxClock
          /\ NotetsleepEntry(t, n, onG0, gcing)

NotetsleepgAnyG(t) ==
    /\ fatal = ""
    /\ pc[t] = "idle"
    /\ hist.s.waitCalls = 0
    /\ \E n \in NsArgs, onG0 \in BOOLEAN :
          /\ n >= 0 => now <= MaxClock
          /\ NotetsleepgEntry(t, n, onG0)

ContextCall(t) ==
    \/ Noteclear(t)
    \/ NotewakeupCall(t)
    \/ NotesleepAnyG(t)
    \/ NotetsleepAnyG(t)
    \/ NotetsleepgAnyG(t)

NextContext == Tick \/ \E t \in Ms : ContextCall(t) \/ NoteStep(t)
SpecContext == InitNote /\ [][NextContext]_vars

(* ------------------ the Mutex and the Note together ------------------- *)
\* every M uses both primitives, one call at a time, its one waitsema
\* serving runtime·lock and the waits on the Note alike
\* runtime·lock called, within the budget of calls of this specification
LockBoth(t) ==
    /\ hist.lockCalls < MaxBothLocks
    /\ LockEnter(t)

\* one session of the Note
NextBoth ==
    \/ Tick
    \/ \E t \in Ms :
          \/ LockBoth(t)
          \/ MutexProgress(t)
          \/ NotewakeupCall(t)
          \/ NotesleepCall(t)
          \/ NotetsleepCall(t)
          \/ NoteStep(t)

InitBoth == Init /\ ncpu = 1
SpecBoth == InitBoth /\ [][NextBoth]_vars

(* ------------------------- the Mutex, checked ------------------------- *)
\* the M's that hold the mutex: back from lock, or in unlock before the CAS
\* that releases it
Holders == {t \in Ms : pc[t] \in {"cs", "u99", "u101", "u106", "u107"}}

\* the wait list: the M's reached from the pointer p through nextwaitm, at
\* most n of them
RECURSIVE WaitList(_, _)
WaitList(p, n) ==
    IF p = nil \/ n = 0 THEN <<>>
    ELSE <<MOf(p)>> \o WaitList(nextwaitm[MOf(p)], n - 1)

Reverse(q) == [k \in 1..Len(q) |-> q[Len(q) + 1 - k]]

AllIdle == \A t \in Ms : pc[t] = "idle"

\* C1: mutual exclusion. At most one thread is between the return of its lock
\* call and the CAS of its unlock call that releases the mutex (so at most one
\* is between the return of lock and the start of unlock).
C1_MutualExclusion == Cardinality(Holders) <= 1

\* C1, the case: one thread is in its critical section, a second is parked in
\* lock and a third spins in lock.
C1_Witness ==
    \E t, u, w \in Ms : pc[t] = "cs" /\ pc[u] = "l85" /\ pc[w] = "l59" /\ i[w] > 0

\* C8: LIFO wakeup. The wait list reached from the state word is, head first,
\* the queued threads from the most recently enqueued to the oldest, and the
\* thread an unlock pops (and then wakes) is the most recently enqueued thread
\* still queued.
C8_LIFOWakeup ==
    /\ WaitList(ClearLocked(lkey), NumM + 1) = Reverse(hist.enq)
    /\ \A t \in Ms : hist.pop[t] # <<>> =>
          /\ hist.pop[t][1] = hist.pop[t][2]
          /\ pc[t] = "u109" /\ mp[t] = PtrOf(hist.pop[t][1])

\* C8, the case: waiters were enqueued in the order A, B, C behind the holder
\* H (C's link is B, B's link is A, A's link is nil); H's release woke C and
\* C's release woke B, both are done, and B's release has now popped A.
C8_Witness ==
    \E h, a, b, c \in Ms :
       /\ Cardinality({h, a, b, c}) = 4
       /\ hist.lockCalls = 4
       /\ nextwaitm[c] = PtrOf(b) /\ nextwaitm[b] = PtrOf(a)
       /\ nextwaitm[a] = nil
       /\ pc[h] = "idle" /\ pc[c] = "idle"
       /\ pc[b] = "u109" /\ hist.pop[b] = <<a, a>>
       /\ pc[a] = "l85"

\* C9: no lock leaked. When no thread holds the mutex, is inside lock or
\* unlock, or is queued or parked, the state word is nil.
C9_NoLockLeaked == AllIdle => lkey = nil

\* C9, the case: every thread is back from a lock/unlock pair, and some of
\* them had been queued behind another.
C9_Witness ==
    /\ AllIdle
    /\ hist.lockCalls = MaxLockCalls
    /\ \E t \in Ms : nextwaitm[t] # nil

\* C10: lock-count discipline. An unlock called with lock count 0 ends in the
\* throw "runtime·unlock: lock count", whatever the mutex was at the call: it
\* never ends the process another way.
C10_UnmatchedUnlockThrows ==
    \A t \in Ms :
       (hist.bad[t] # "" /\ hist.thrower = t) =>
           fatal = "runtime.unlock: lock count"

(* -------------------------- the Note, checked ------------------------- *)
\* the session's wait is a notesleep or a notetsleep with ns < 0
Untimed == hist.s.waiter # 0 /\ hist.s.ns0 < 0
\* the session's wait is a notetsleep with ns >= 0
Timed == hist.s.waiter # 0 /\ hist.s.ns0 >= 0
Returned == hist.s.ret # "none"
\* a notewakeup is between its successful CAS and its semawakeup of M t
WakePending(t) == \E k \in Ms : pc[k] = "w146" /\ mp[k] = PtrOf(t)
\* no notewakeup is running
WakerIdle == \A k \in Ms : pc[k] \notin {"w134", "w135", "w146"}

C2_Safety ==
    /\ (Untimed /\ Returned) => hist.s.wakeFound # "none"
    /\ (hist.s.waitCalls = 0 \/ Untimed) =>
          /\ hist.s.semaWakes <= (IF hist.s.regBeforeWake THEN 1 ELSE 0)
          /\ (hist.s.wakeFound # "none" /\ WakerIdle) =>
                hist.s.semaWakes = (IF hist.s.regBeforeWake THEN 1 ELSE 0)

\* C2: exactly-once delivery. In a session with one untimed waiter and one
\* notewakeup: the waiter never returns before notewakeup's CAS to LOCKED
\* succeeded; semawakeup is called once if the registration CAS preceded that
\* CAS and never otherwise; and once both calls are made the waiter returns.
C2_ExactlyOnce ==
    /\ []C2_Safety
    /\ (Untimed /\ hist.s.wakeCalls >= 1) ~> Returned

\* C2, the case: a notesleep registered, slept, was woken by the one
\* semawakeup and has returned.
C2_Witness ==
    /\ hist.s.ns0 < 0 /\ hist.s.ret = "void"
    /\ hist.s.regBeforeWake /\ hist.s.semaWakes = 1 /\ hist.s.semaSleeps = 1
    /\ WakerIdle

C3_Safety ==
    /\ fatal = ""
    /\ (Timed /\ Returned) =>
          /\ hist.s.ret \in {"true", "false"}
          /\ hist.s.ret = "false" <=> hist.s.unreg
          /\ hist.s.ret = "true" <=> hist.s.wokenAtRet
    /\ (Timed /\ ~Returned) => ~hist.s.unreg

\* C3: timeout/signal race. A notetsleep with ns >= 0 racing with at most one
\* notewakeup returns, with false exactly when its unregister CAS succeeded
\* and with true exactly when notewakeup's CAS to LOCKED came first; no throw
\* is reached.
C3_TimeoutSignalRace ==
    /\ []C3_Safety
    /\ Timed ~> Returned

\* C3, the case: the deadline fell between notewakeup's CAS and its
\* semawakeup: the waiter saw LOCKED in its cancellation loop and waits for
\* the grant the waker has still to issue.
C3_Witness ==
    \E t, k \in Ms :
       /\ pc[t] = "t235" /\ sema[t] = 0
       /\ pc[k] = "w146" /\ mp[k] = PtrOf(t)

\* C4: cancellation never loses a signal. A notetsleep that sees LOCKED in its
\* cancellation loop has a grant pending or coming and returns only by taking
\* it; after a return of false no semawakeup has been or will be issued in the
\* session; and whenever a notetsleep or notesleep has returned, the waiter's
\* semaphore holds no grant and none is on its way.
C4_NoLostSignal ==
    /\ \A t \in Ms : pc[t] = "t235" =>
          /\ sema[t] = 1 \/ WakePending(t)
          /\ ~(sema[t] = 1 /\ WakePending(t))
    /\ (Timed /\ hist.s.ret = "false") =>
          /\ hist.s.semaWakes = 0
          /\ ~WakePending(hist.s.waiter)
    /\ Returned =>
          /\ sema[hist.s.waiter] = 0
          /\ ~WakePending(hist.s.waiter)

\* C4, the case: the waiter timed out, saw LOCKED in its cancellation loop,
\* and the grant is there for it to take.
C4_Witness ==
    \E t \in Ms : pc[t] = "t235" /\ sema[t] = 1 /\ hist.s.semaSleeps = 2

\* C5: signal before wait. When notewakeup's CAS found the Note empty and no
\* wait had registered before, no semawakeup is issued, the key stays LOCKED,
\* and the session's wait calls no semasleep and returns (true, for
\* notetsleep) from the test that follows its failed CAS.
C5_SignalBeforeWait ==
    (hist.s.wakeFound = "empty" /\ ~hist.s.regBeforeWake) =>
        /\ hist.s.semaWakes = 0
        /\ nkey = LOCKED
        /\ hist.s.semaSleeps = 0
        /\ hist.s.reg = 0
        /\ \A t \in Ms : pc[t] \in {"idle", "s169", "t189"}
        /\ hist.s.waiter # 0 =>
              /\ hist.s.ret \in {"none", "void", "true"}
              /\ hist.s.ns0 >= 0 => hist.s.ret \in {"none", "true"}
              /\ hist.s.ret = "none" <=> pc[hist.s.waiter] # "idle"

\* C5, the case: after a notewakeup on the empty Note, a notetsleep with a
\* deadline has returned true.
C5_Witness ==
    /\ hist.s.wakeFound = "empty" /\ ~hist.s.regBeforeWake
    /\ hist.s.ns0 = MaxNs /\ hist.s.ret = "true"

\* C6: double signal is fatal. A notewakeup whose CAS replaced LOCKED throws
\* "notewakeup - double wakeup" at once: it goes on to no semawakeup and the
\* key is LOCKED.
C6_DoubleWakeupFatal ==
    /\ hist.s.wokenAgain <=> fatal = "notewakeup - double wakeup"
    /\ hist.s.wokenAgain =>
          /\ nkey = LOCKED
          /\ pc[hist.thrower] = "w135" /\ mp[hist.thrower] = LOCKED
          /\ hist.s.wakeCalls = 2

\* C6, the case: the first notewakeup woke a registered sleeper, the second
\* threw.
C6_Witness ==
    /\ fatal = "notewakeup - double wakeup"
    /\ hist.s.semaWakes = 1 /\ hist.s.regBeforeWake

C7_Safety ==
    (Timed /\ hist.s.ret = "false") =>
        /\ hist.s.retTime >= hist.s.regTime + hist.s.ns0
        /\ hist.s.wakeCalls = 0 =>
              /\ nkey = nil
              /\ sema = [t \in Ms |-> 0]
              /\ blocked = [t \in Ms |-> FALSE]
              /\ AllIdle

\* C7: timeout correctness. A notetsleep with ns >= 0 returns false unless a
\* notewakeup is called, not before the clock has reached the time of its
\* registration plus ns, however often semasleep returned early; and it then
\* leaves the Note, the semaphores and the threads as they are at the start.
C7_TimeoutCorrect ==
    /\ []C7_Safety
    /\ Timed ~> (hist.s.ret = "false" \/ hist.s.wakeCalls >= 1)

\* C7, the case: a notetsleep with the longest timeout returned false after
\* semasleep had returned early and been called again, no notewakeup called.
C7_Witness ==
    /\ hist.s.ns0 = MaxNs /\ hist.s.ret = "false"
    /\ hist.s.semaSleeps = 2 /\ hist.s.wakeCalls = 0

(* ---------------------- the Mutex, checked further --------------------- *)
\* the statements of runtime·lock after its speculative grab
LockPcs == {"l59", "l62", "l76", "l77", "l79", "l85"}
\* the M's on the wait list, as a set
Queued == {hist.enq[k] : k \in 1..Len(hist.enq)}
\* the M's inside runtime·lock that are not on the wait list: they spin, try
\* to grab or to push, or were popped and are about to wake
Contenders == {t \in Ms : pc[t] \in LockPcs /\ t \notin Queued}

\* C11 as stated: whenever the LOCKED bit of l->key is 0, its pointer bits
\* are nil.
C11_UnlockedNoPointer == LockedBit(lkey) = 0 => ClearLocked(lkey) = nil

\* C11, amended: whenever the LOCKED bit of l->key is 0 no thread holds the
\* mutex, and the pointer bits are nil or point at the head of the wait list
\* an unlock left behind when it popped one waiter of several; that head is
\* still queued, and a thread that is not queued is inside runtime·lock and
\* will set the LOCKED bit again.
C11_UnlockedPointerTransient ==
    LockedBit(lkey) = 0 =>
        /\ Holders = {}
        /\ ClearLocked(lkey) # nil =>
              /\ hist.enq # <<>>
              /\ MOf(lkey) = hist.enq[Len(hist.enq)]
              /\ pc[MOf(lkey)] = "l85" /\ sema[MOf(lkey)] = 0
              /\ Contenders # {}

\* C11, the case: the mutex is free, a waiter is still queued, and the waiter
\* popped before it has its grant and has not yet woken.
C11_Witness ==
    /\ LockedBit(lkey) = 0 /\ ClearLocked(lkey) # nil
    /\ \E t \in Contenders : pc[t] = "l85" /\ sema[t] = 1

\* C13: one CAS and at most one wakeup per unlock. Of the steps of a thread
\* in runtime·unlock only its two CASes change l->key, and only when they
\* succeed; a CAS that succeeds is the last of the call. The CAS of line 101
\* succeeds on the word "locked, empty list" only, and the call then returns
\* with no semawakeup; the CAS of line 107 succeeds on a word with a
\* non-empty list only, mp being its head, and the call then performs one
\* semawakeup, of mp, and returns. No other step of unlock grants a semaphore.
C13_OneCasOneWake ==
    [][\A t \in Ms :
          /\ (pc[t] = "u101" /\ pc'[t] # "u101") =>
                /\ sema' = sema
                /\ IF lkey = LOCKED
                   THEN lkey' = nil /\ pc'[t] = "idle"
                   ELSE lkey' = lkey /\ pc'[t] = "u99"
          /\ (pc[t] = "u107" /\ pc'[t] # "u107") =>
                /\ sema' = sema
                /\ IF lkey = v[t]
                   THEN /\ hist.enq # <<>>
                        /\ mp[t] = PtrOf(hist.enq[Len(hist.enq)])
                        /\ mp[t] = ClearLocked(lkey)
                        /\ lkey' = nextwaitm[MOf(mp[t])]
                        /\ pc'[t] = "u109"
                   ELSE lkey' = lkey /\ pc'[t] = "u99"
          /\ (pc[t] = "u109" /\ pc'[t] # "u109") =>
                /\ pc'[t] = "idle"
                /\ lkey' = lkey
                /\ sema' = [sema EXCEPT ![MOf(mp[t])] = @ + 1]
          /\ (pc[t] \in {"cs", "u99", "u106"} /\ pc'[t] # pc[t]) =>
                /\ lkey' = lkey /\ sema' = sema
                /\ pc'[t] \in {"u101", "u106", "u107"}]_vars

\* C13, the case: an unlock popped and woke a waiter and has returned; a
\* third thread took the mutex before the woken one ran.
C13_Witness ==
    \E w, h \in Ms :
       /\ pc[w] = "l85" /\ sema[w] = 1
       /\ pc[h] = "cs"
       /\ \A u \in Ms : pc[u] \notin {"u99", "u101", "u106", "u107", "u109"}

\* C14: no enqueue on, and no parking because of, an unlocked state. A
\* thread about to write its nextwaitm or to try its push CAS holds in v a
\* word with the LOCKED bit set, so a push CAS that succeeds replaced such a
\* word; a thread parked or about to park pushed itself so and is on the wait
\* list or was popped from it; and a thread whose last load of l->key (line
\* 59 or line 79) found the LOCKED bit clear is at the acquiring CAS of
\* line 62.
C14_NoEnqueueOnUnlocked ==
    /\ \A t \in Ms :
          /\ pc[t] \in {"l76", "l77", "l79", "l85"} => LockedBit(v[t]) = 1
          /\ pc[t] = "l62" => LockedBit(v[t]) = 0
          /\ (pc[t] \in LockPcs /\ LockedBit(v[t]) = 0) =>
                pc[t] \in {"l59", "l62"}
          /\ pc[t] = "l85" =>
                \/ t \in Queued
                \/ sema[t] = 1
                \/ \E u \in Ms : pc[u] = "u109" /\ mp[u] = PtrOf(t)
          /\ t \in Queued => pc[t] = "l85"

\* C14, the case: a push CAS failed, the reload found the mutex free, and the
\* thread is at the acquiring CAS while another waiter stays parked.
C14_Witness ==
    \E t, w \in Ms :
       /\ pc[t] = "l62" /\ nextwaitm[t] # nil /\ t \notin Queued
       /\ LockedBit(lkey) = 0
       /\ pc[w] = "l85" /\ w \in Queued

\* C15 as stated: spin policy. A thread that goes to enqueue (lines 75-81)
\* has, since it last set i to 0, called procyield exactly spin times and
\* osyield exactly PASSIVE_SPIN times; on a uniprocessor it never calls
\* procyield.
C15_SpinThenEnqueue ==
    \A t \in Ms :
       /\ pc[t] \in {"l76", "l77", "l79"} =>
             /\ hist.procyields[t] = Spin
             /\ hist.osyields[t] = PASSIVE_SPIN
       /\ ncpu = 1 => hist.procyields[t] = 0

\* C17: preemption reassert on unlock. The step of runtime·unlock that
\* decrements the M's lock count sets g->stackguard0 to StackPreempt when the
\* count reaches 0 and g->preempt is set, leaves it as it was when the count
\* stays positive or g->preempt is clear, and throws, with the marker as it
\* was, when the count becomes negative; it does not change g->preempt, and
\* no other step of lock or unlock touches the marker.
C17_PreemptReassert ==
    [][\A t \in Ms :
          /\ locks'[t] < locks[t] =>
                /\ locks'[t] = locks[t] - 1
                /\ preempt'[t] = preempt[t]
                /\ stackguard0'[t] =
                      IF locks'[t] = 0 /\ preempt[t] THEN StackPreempt
                      ELSE stackguard0[t]
                /\ locks'[t] < 0 <=> fatal' = "runtime.unlock: lock count"
          /\ (locks'[t] >= locks[t] /\ pc'[t] # pc[t]) =>
                stackguard0'[t] = stackguard0[t]]_vars

\* C17, the case: one thread has unlocked to count 0 with a preemption
\* pending whose marker newstack had cleared, and has the marker back;
\* another has unlocked with a preemption pending while it holds a second
\* mutex, and its marker stays cleared.
C17_Witness ==
    \E t, u \in Ms :
       /\ pc[t] = "idle" /\ locks[t] = 0 /\ preempt[t]
       /\ stackguard0[t] = StackPreempt
       /\ pc[u] = "idle" /\ locks[u] = 1 /\ preempt[u]
       /\ stackguard0[u] = StackGuard

\* the chain from l->key through nextwaitm, cut off after NumM + 1 links
Chain == WaitList(ClearLocked(lkey), NumM + 1)

C18_ListWellFormed ==
    /\ Len(Chain) <= NumM
    /\ \A a, b \in 1..Len(Chain) : a # b => Chain[a] # Chain[b]
    /\ {Chain[k] : k \in 1..Len(Chain)} = Queued
    /\ Holders \cap Queued = {}
    /\ \A t \in Queued : pc[t] = "l85"
    /\ \A t \in Ms :
          (pc[t] = "u107" /\ lkey = v[t]) =>
              /\ mp[t] # nil
              /\ nxt[t] = nextwaitm[MOf(mp[t])]

\* C18: wait-list well-formedness. The chain from the pointer bits of l->key
\* through nextwaitm ends within NumM links, holds no M twice, holds no
\* holder of the mutex, and holds exactly the M's that pushed themselves and
\* were not popped, each of them at the semasleep of line 85; an unlock whose
\* pop CAS is about to succeed read from mp->nextwaitm the value that is
\* there now; and an M's nextwaitm is written only by that M, at line 76,
\* while it is not in the chain.
C18_WaitListWellFormed ==
    /\ []C18_ListWellFormed
    /\ [][\A t \in Ms :
             nextwaitm'[t] # nextwaitm[t] =>
                 /\ pc[t] = "l76" /\ pc'[t] = "l77"
                 /\ t \notin Queued
                 /\ \A k \in 1..Len(Chain) : Chain[k] # t]_vars

\* C18, the case: two M's are queued, a third failed its push CAS and goes
\* round again, and the holder is about to pop.
C18_Witness ==
    \E h, t \in Ms :
       /\ pc[h] = "u107" /\ lkey = v[h]
       /\ Len(hist.enq) >= 2
       /\ pc[t] = "l79"

\* the M's parked in runtime·lock with no grant to take
Parked == {t \in Ms : pc[t] = "l85" /\ sema[t] = 0}
\* the M's inside runtime·lock that can take a step
Running == {t \in Ms : pc[t] \in LockPcs} \ Parked
\* the calls of runtime·lock that have returned
Acquired == hist.lockCalls - Cardinality({t \in Ms : pc[t] \in LockPcs})

\* C19 as stated, its safety part: in no reachable state is the mutex not
\* held and some thread parked in runtime·lock while no thread runs inside
\* lock or has a grant pending.
C19_NoLostWakeup ==
    ~(Holders = {} /\ Parked # {} /\ Running = {})

C19_NoStuckState ==
    ~(/\ Holders = {} /\ Parked # {} /\ Running = {}
      /\ \A u \in Ms : pc[u] # "u109")

\* C19, amended: deadlock freedom of the Mutex. Every thread inside lock or
\* unlock eventually taking its next step and every holder eventually
\* calling unlock: in no reachable state is the mutex not held and some
\* thread parked in runtime·lock while no thread runs inside lock or has a
\* grant pending and no thread is in unlock between its pop CAS and its
\* semawakeup; and whenever a thread is inside runtime·lock, eventually one
\* more call of lock returns (the count of returned calls never falls and
\* grows by one at a time, so one more call has returned when its parity has
\* changed).
C19_DeadlockFree ==
    /\ []C19_NoStuckState
    /\ \A par \in {0, 1} :
          ((\E t \in Ms : pc[t] \in LockPcs) /\ Acquired % 2 = par)
              ~> (Acquired % 2 # par)

\* C19, the case: the holder has popped the only waiter and released the
\* mutex, and has not yet called semawakeup: the waiter is parked, nobody
\* holds the mutex and nobody runs inside lock.
C19_Witness ==
    /\ Holders = {} /\ Parked # {} /\ Running = {}
    /\ \E u \in Ms : pc[u] = "u109" /\ MOf(mp[u]) \in Parked

(* ------------------------ the context, checked ------------------------ *)
\* C12: the context check precedes any effect. The step in which notesleep,
\* notetsleep or notetsleepg throws for its context leaves the Note's key,
\* every M's semaphore handle, semaphore count and blocked flag, and every
\* M's position and locals as they were.
C12_ContextCheckFirst ==
    [][(fatal = "" /\ fatal' \in ContextThrows) =>
          /\ nkey' = nkey
          /\ waitsema' = waitsema
          /\ sema' = sema
          /\ blocked' = blocked
          /\ pc' = pc /\ mp' = mp]_vars

\* C12, the case: a wait called from the wrong context on a Note already
\* signalled has thrown; the caller has no semaphore.
C12_Witness ==
    /\ fatal \in ContextThrows
    /\ nkey = LOCKED
    /\ waitsema[hist.thrower] = 0 /\ ~blocked[hist.thrower]

(* ------------------------ the Note, checked further -------------------- *)
\* C16 as stated: at most one registered waiter. A notesleep or notetsleep
\* whose registration CAS failed while the key held another M never returns:
\* it is at the test that follows the CAS, or it has thrown "waitm out of
\* sync" there; and it has not changed the key.
C16_SecondWaiterThrows ==
    \A t \in Ms : hist.s.intruder = t =>
       /\ pc[t] \in {"s169", "t189"}
       /\ fatal # "" =>
             (hist.thrower = t =>
                 fatal \in {"notesleep - waitm out of sync",
                            "notetsleep - waitm out of sync"})

(* ---------------- the Mutex and the Note, one semaphore --------------- *)
\* where a thread is inside notesleep or notetsleep
NoteWaitPcs ==
    {"s169", "s175", "t189", "t197", "t202", "t206", "t215", "t226", "t229",
     "t235"}

\* the threads that have chosen M t for a semawakeup they have yet to call
InFlight(t) ==
    {k \in Ms : pc[k] \in {"u109", "w146"} /\ mp[k] = PtrOf(t)}

\* the grants of t's semaphore, made or about to be made
Grants(t) == sema[t] + Cardinality(InFlight(t))

\* C20: the one semaphore of a thread stays in balance across the Mutex and
\* the Note: its count never exceeds 1, even with the semawakeup calls under
\* way counted in; it is 0, and no semawakeup is under way, while the thread
\* is outside lock, notesleep and notetsleep; a thread inside lock has a grant
\* exactly when an unlock popped its enqueue and the thread has not yet
\* returned from semasleep, and that grant comes from that unlock; a thread
\* inside a wait on the Note has a grant only from the one notewakeup that
\* replaced its registration
C20_SemaphoreBalance ==
    \A t \in Ms :
       /\ sema[t] <= 1
       /\ Grants(t) <= 1
       /\ pc[t] \notin LockPcs \cup NoteWaitPcs => Grants(t) = 0
       /\ pc[t] \in LockPcs =>
             /\ Grants(t) = (IF pc[t] = "l85" /\ t \notin Queued THEN 1 ELSE 0)
             /\ \A k \in InFlight(t) : pc[k] = "u109"
       /\ pc[t] \in NoteWaitPcs /\ Grants(t) = 1 =>
             /\ hist.s.reg = t
             /\ hist.s.wakeFound = "reg"
             /\ \A k \in InFlight(t) : pc[k] = "w146"
             /\ hist.s.semaWakes = sema[t]
             /\ hist.s.ret = "none"

\* a thread that was woken out of its wait on the Note and has returned is
\* now parked in lock, popped, the grant of the unlock in its semaphore
C20_Witness ==
    \E t \in Ms :
       /\ hist.s.reg = t
       /\ hist.s.semaWakes = 1
       /\ hist.s.ret # "none"
       /\ pc[t] = "l85"
       /\ t \notin Queued
       /\ sema[t] = 1

====
